---- MODULE Spec2Model ----
(***************************************************************************)
(* Model of the MBTI chat assistant: the aiService module (conversation    *)
(* store, analysis trigger, result parser, sendMessage orchestration) and  *)
(* the App component that drives it.                                       *)
(*                                                                         *)
(* Texts are sequences of tokens.  A token is one word of the text; the    *)
(* Chinese words of the source are written in pinyin:                      *)
(*   fenxi 分析  zongjie 总结  jielun 结论  xinggeleixing 性格类型             *)
(*   panduan 判断  pinggu 评估  kanqilai 看起来  genju 根据  zonghe 综合        *)
(*   leixing 类型  juhui 聚会  xijie 细节  jueding 决定  jihua 计划 ...         *)
(* An upper-case letter is a token of its own ("I","N","T","J"), "NL" is   *)
(* the line break, "x" is a word that matches nothing.                     *)
(***************************************************************************)
EXTENDS Integers, Sequences, FiniteSets, Bags, TLC

VARIABLES
  isInitialized,        \* isInitialized.value && chatModel.value !== null
  conversationHistory,  \* sequence of [role, content]
  isAnalyzing,          \* reentrancy flag of performMBTIAnalysis
  userInfo,             \* [mbtiType, questionsAsked]
  pending,              \* calls awaiting the gateway: a bag of [op, pc, gen, message]
  gen,                  \* number of resetConversation calls made (the session)
  lastReturn,           \* what the last step gave the caller of a call it completed
  lastTrigger,          \* the evaluation of shouldAnalyze in the last step
  welcomeTurns,         \* assistant turns of the history pushed by getWelcomeMessage
  analysesReturned,     \* sendMessage calls of this session that returned an analysis
  untouched,            \* reset, and no sendMessage or getWelcomeMessage called since
  messages,             \* App: the message list
  isLoading,            \* App: isLoading
  isAnalysisComplete,   \* App: isAnalysisComplete
  mountTimer,           \* App: setTimeout(startNewConversation, 500) not yet fired
  parserInput,          \* the text handed to parseAnalysisResult
  parsed,               \* what parseAnalysisResult returned for it
  enoughInfo            \* what hasCollectedEnoughDimensionInfo returned

svcVars == <<isInitialized, conversationHistory, isAnalyzing, userInfo, pending,
             gen, lastReturn, lastTrigger, welcomeTurns, analysesReturned, untouched>>
uiVars == <<messages, isLoading, isAnalysisComplete, mountTimer>>
fnVars == <<parserInput, parsed, enoughInfo>>
vars == <<isInitialized, conversationHistory, isAnalyzing, userInfo, pending,
          gen, lastReturn, lastTrigger, welcomeTurns, analysesReturned, untouched,
          messages, isLoading, isAnalysisComplete, mountTimer,
          parserInput, parsed, enoughInfo>>

----------------------------------------------------------------------------
(* Bounds of the model *)

MaxTurns == 8      \* a call is started only while its turns fit into the history
MaxUITurns == 9    \* the same, for the calls the App component makes
MaxResets == 1     \* resetConversation calls in a behaviour
MaxPending == 2    \* calls awaiting the gateway at the same time
MaxLines == 3      \* lines of a text handed to the result parser
MaxHistory == 4    \* turns of a history handed to the coverage heuristic

----------------------------------------------------------------------------
(* AI_CONFIG *)

minQuestionsBeforeAnalysis == 4

analysisKeywords ==
  {"fenxi", "zongjie", "jielun", "xinggeleixing", "MBTI",
   "panduan", "pinggu", "kanqilai", "genju", "zonghe"}

----------------------------------------------------------------------------
(* Strings *)

Null == [null |-> TRUE]

UpperCase == {"A", "B", "C", "D", "E", "F", "I", "J", "M", "N", "P", "S", "T", "X"}

\* The key words a token holds as substrings: 性格类型 holds 类型.
SubWords(tok) ==
  IF tok = "xinggeleixing" THEN {"xinggeleixing", "leixing"} ELSE {tok}

\* String.prototype.includes
Includes(text, word) == \E i \in DOMAIN text : word \in SubWords(text[i])

\* String.prototype.toLowerCase, token by token
LowerTok(tok) ==
  CASE tok = "MBTI" -> "mbti"
    [] tok = "A" -> "a" [] tok = "B" -> "b" [] tok = "C" -> "c"
    [] tok = "D" -> "d" [] tok = "E" -> "e" [] tok = "F" -> "f"
    [] tok = "I" -> "i" [] tok = "J" -> "j" [] tok = "M" -> "m"
    [] tok = "N" -> "n"
    [] tok = "P" -> "p" [] tok = "S" -> "s" [] tok = "T" -> "t"
    [] tok = "X" -> "x"
    [] OTHER -> tok

toLowerCase(text) == [i \in DOMAIN text |-> LowerTok(text[i])]

\* conversationHistory.map(msg => msg.content).join(' ')
RECURSIVE JoinContents(_)
JoinContents(h) ==
  IF h = <<>> THEN <<>>
  ELSE IF Len(h) = 1 THEN h[1].content
  ELSE h[1].content \o <<" ">> \o JoinContents(Tail(h))

----------------------------------------------------------------------------
(* Analysis trigger *)

Axes == <<"EI", "SN", "TF", "JP">>

dimensionKeywords ==
  [EI |-> {"juhui", "shejiao", "duchu", "jiaoliu", "pengyou", "renqun", "anjing", "renao"},
   SN |-> {"xijie", "zhijue", "kenengxing", "weilai", "xianshi", "chouxiang", "juti", "xiangxiang"},
   TF |-> {"jueding", "ganshou", "luoji", "qinggan", "lixing", "jiazhiguan", "gongping", "hexie"},
   JP |-> {"jihua", "linghuo", "guilv", "suixing", "jiezhiriqi", "ziyou", "jiegou", "bianhua"}]

coveredDimensions(history) ==
  LET conversationText == toLowerCase(JoinContents(history))
  IN  Cardinality({i \in DOMAIN Axes :
        \E keyword \in dimensionKeywords[Axes[i]] : Includes(conversationText, keyword)})

hasCollectedEnoughDimensionInfo_AllFour(history) == coveredDimensions(history) >= 4

hasCollectedEnoughDimensionInfo(history) == coveredDimensions(history) >= 3

hasEnoughQuestions_Strict(uinfo) ==
  uinfo.questionsAsked > minQuestionsBeforeAnalysis

hasEnoughQuestions(uinfo) ==
  uinfo.questionsAsked >= minQuestionsBeforeAnalysis

hasAnalysisIntent(aiResponse) ==
  \E keyword \in analysisKeywords : Includes(aiResponse, keyword)

shouldAnalyze(aiResponse, uinfo, history) ==
  hasEnoughQuestions(uinfo)
    /\ (hasAnalysisIntent(aiResponse) \/ hasCollectedEnoughDimensionInfo(history))

----------------------------------------------------------------------------
(* Result parser *)

\* The characters of a token, for the regular expressions over letters.
Chars(tok) == IF tok = "MBTI" THEN <<"M", "B", "T", "I">> ELSE <<tok>>

RECURSIVE Expand(_)
Expand(text) ==
  IF text = <<>> THEN <<>> ELSE Chars(Head(text)) \o Expand(Tail(text))

Positions(text, tok) == {i \in DOMAIN text : text[i] = tok}

Min(S) == CHOOSE m \in S : \A n \in S : m <= n
Max(S) == CHOOSE m \in S : \A n \in S : m >= n

\* content.match(/\{[\s\S]*\}/): from the first "{" to the last "}", or Null
jsonMatch(content) ==
  LET open == Positions(content, "{")
      close == Positions(content, "}")
  IN  IF open # {} /\ close # {} /\ Min(open) < Max(close)
      THEN [text |-> SubSeq(content, Min(open), Max(close))]
      ELSE Null

\* JSON.parse of the text between the braces: a list of the fields
\*   "mbtiType": "<letters>"   "dimensions": {<one pole per axis>}   "description": "..."
\* Any other token is a syntax error.  cur is the key whose value is being read.
RECURSIVE JsonFields(_, _, _)
JsonFields(toks, cur, obj) ==
  IF toks = <<>> THEN [ok |-> TRUE, obj |-> obj]
  ELSE LET t == Head(toks) IN
    CASE t = "NL" -> JsonFields(Tail(toks), "", obj)
      [] t = "mbtiType" ->
           JsonFields(Tail(toks), t,
             [obj EXCEPT !.keys = @ \cup {t}, !.mbtiType = <<>>])
      [] t = "dimensions" ->
           JsonFields(Tail(toks), t,
             [obj EXCEPT !.keys = @ \cup {t}, !.dimensions = <<>>])
      [] t = "description" ->
           JsonFields(Tail(toks), "", [obj EXCEPT !.keys = @ \cup {t}])
      [] t \in UpperCase /\ cur = "mbtiType" ->
           JsonFields(Tail(toks), cur, [obj EXCEPT !.mbtiType = Append(@, t)])
      [] t \in UpperCase /\ cur = "dimensions" /\ Len(obj.dimensions) < Len(Axes) ->
           JsonFields(Tail(toks), cur, [obj EXCEPT !.dimensions = Append(@, t)])
      [] OTHER -> [ok |-> FALSE, obj |-> obj]

JSONparse(text) ==
  JsonFields(SubSeq(text, 2, Len(text) - 1), "",
             [keys |-> {}, mbtiType |-> <<>>, dimensions |-> <<>>])

\* The object JSON.parse gave, as the analysis it is returned as.
decoded(obj) ==
  [mbtiType |-> obj.mbtiType,
   dimensions |-> [a \in {Axes[i] : i \in DOMAIN obj.dimensions} |->
                     [type |-> obj.dimensions[CHOOSE i \in DOMAIN Axes : Axes[i] = a]]],
   description |-> "decoded"]

hasRequiredFields_NoDescription(obj) ==
  /\ "mbtiType" \in obj.keys /\ obj.mbtiType # <<>>
  /\ "dimensions" \in obj.keys

\* analysis.mbtiType && analysis.dimensions && analysis.description
hasRequiredFields(obj) ==
  /\ "mbtiType" \in obj.keys /\ obj.mbtiType # <<>>
  /\ "dimensions" \in obj.keys
  /\ "description" \in obj.keys

generateDimensionsAnalysis(mbtiType) ==
  LET chars == mbtiType IN
  [EI |-> [type |-> chars[1], confidence |-> 75,
           reason |-> IF chars[1] = "E" THEN "waixiang" ELSE "neixiang"],
   SN |-> [type |-> chars[2], confidence |-> 75,
           reason |-> IF chars[2] = "S" THEN "ganjue" ELSE "zhijue"],
   TF |-> [type |-> chars[3], confidence |-> 75,
           reason |-> IF chars[3] = "T" THEN "lixingsikao" ELSE "qinggankaolv"],
   JP |-> [type |-> chars[4], confidence |-> 75,
           reason |-> IF chars[4] = "J" THEN "youxuguihua" ELSE "linghuoshiying"]]

typeDescriptions(mbtiType) ==
  IF mbtiType = <<"I", "N", "T", "J">>
  THEN [description |-> "INTJ.description", strengths |-> "INTJ.strengths",
        developmentAreas |-> "INTJ.developmentAreas",
        careerSuggestions |-> "INTJ.careerSuggestions"]
  ELSE [description |-> "ENFP.description", strengths |-> "ENFP.strengths",
        developmentAreas |-> "ENFP.developmentAreas",
        careerSuggestions |-> "ENFP.careerSuggestions"]

generateBasicAnalysis(mbtiType) ==
  LET typeInfo == typeDescriptions(mbtiType) IN
  [mbtiType |-> mbtiType,
   confidence |-> 70,
   dimensions |-> generateDimensionsAnalysis(mbtiType),
   description |-> typeInfo.description,
   strengths |-> typeInfo.strengths,
   developmentAreas |-> typeInfo.developmentAreas,
   careerSuggestions |-> typeInfo.careerSuggestions]

generateFallbackAnalysis ==
  [mbtiType |-> <<"E", "N", "F", "P">>,
   confidence |-> 60,
   dimensions |->
     [EI |-> [type |-> "E", confidence |-> 60, reason |-> "fallback.EI"],
      SN |-> [type |-> "N", confidence |-> 60, reason |-> "fallback.SN"],
      TF |-> [type |-> "F", confidence |-> 60, reason |-> "fallback.TF"],
      JP |-> [type |-> "P", confidence |-> 60, reason |-> "fallback.JP"]],
   description |-> "fallback.description",
   strengths |-> "fallback.strengths",
   developmentAreas |-> "fallback.developmentAreas",
   careerSuggestions |-> "fallback.careerSuggestions"]

\* content.split('\n')
RECURSIVE split(_)
split(content) ==
  LET nl == Positions(content, "NL") IN
  IF nl = {} THEN <<content>>
  ELSE <<SubSeq(content, 1, Min(nl) - 1)>>
         \o split(SubSeq(content, Min(nl) + 1, Len(content)))

\* line.match(/[A-Z]{4}/): the first four upper-case letters in a row, or Null
matchType(line) ==
  LET cs == Expand(line)
      at == {i \in 1..(Len(cs) - 3) : \A k \in 0..3 : cs[i + k] \in UpperCase}
  IN  IF at = {} THEN Null ELSE [text |-> SubSeq(cs, Min(at), Min(at) + 3)]

isTypeLine(line) == Includes(line, "mbtiType") \/ Includes(line, "leixing")

\* the for loop of parseAlternativeFormat: the type of the first type line
\* that holds four upper-case letters in a row, <<>> when there is none
RECURSIVE scanLines(_)
scanLines(lines) ==
  IF lines = <<>> THEN <<>>
  ELSE IF isTypeLine(Head(lines)) /\ matchType(Head(lines)) # Null
       THEN matchType(Head(lines)).text
       ELSE scanLines(Tail(lines))

parseAlternativeFormat(content) ==
  LET mbtiType == scanLines(split(content)) IN
  IF mbtiType # <<>> THEN generateBasicAnalysis(mbtiType) ELSE Null

parseAnalysisResult(content) ==
  LET m == jsonMatch(content) IN
  IF m # Null
  THEN LET r == JSONparse(m.text) IN
       IF ~r.ok THEN Null                              \* catch: return null
       ELSE IF hasRequiredFields(r.obj) THEN decoded(r.obj)
       ELSE parseAlternativeFormat(content)
  ELSE parseAlternativeFormat(content)


----------------------------------------------------------------------------
(* Inputs: what the user types and what the gateway answers *)

UserTexts == {<<"xijie", "jueding">>}

ReplyTexts == {<<"x">>, <<"fenxi">>}

WelcomeTexts == {<<"nihao", "juhui">>}

AnalysisTexts ==
  {<<"x", "{", "mbtiType", "I", "N", "T", "J", "dimensions", "I", "N", "T", "J",
     "description", "}", "x">>,
   <<"leixing", "I", "S", "T", "P", "NL", "{", "x", "}">>,
   <<"{", "mbtiType", "E", "S", "F", "J", "NL", "dimensions", "}">>,
   <<"{", "mbtiType", "I", "N", "T", "J", "dimensions", "E", "S", "F", "P",
     "description", "}">>,
   <<"leixing", "I", "N", "T", "J">>,
   <<"x">>}

\* What an awaited chatModel.invoke gives: the content of the reply, or an error.
GatewayError == [kind |-> "fail", content |-> <<>>]
NoResponse == [kind |-> "none", content |-> <<>>]
Reply(text) == [kind |-> "ok", content |-> text]

----------------------------------------------------------------------------
(* aiService: the state and its operations, one operator per stretch of    *)
(* code that runs without awaiting.  s is the state of the module.         *)

NoType == <<>>     \* userInfo.mbtiType === null

NoReturn ==
  [op |-> "none", gen |-> 0, outcome |-> "none", message |-> <<>>,
   analysis |-> Null, isComplete |-> FALSE,
   primary |-> "none", trigger |-> FALSE, busy |-> FALSE, analysisResponse |-> NoResponse]

NoTrigger ==
  [evaluated |-> FALSE, aiResponse |-> <<>>, result |-> FALSE,
   issued |-> FALSE, prompt |-> <<>>]

\* The state a step starts from: it has returned nothing yet.
S ==
  [isInitialized |-> isInitialized, conversationHistory |-> conversationHistory,
   isAnalyzing |-> isAnalyzing, userInfo |-> userInfo, pending |-> pending,
   gen |-> gen, lastReturn |-> NoReturn, lastTrigger |-> NoTrigger,
   welcomeTurns |-> welcomeTurns, analysesReturned |-> analysesReturned,
   untouched |-> untouched]

Becomes(s) ==
  /\ isInitialized' = s.isInitialized
  /\ conversationHistory' = s.conversationHistory
  /\ isAnalyzing' = s.isAnalyzing
  /\ userInfo' = s.userInfo
  /\ pending' = s.pending
  /\ gen' = s.gen
  /\ lastReturn' = s.lastReturn
  /\ lastTrigger' = s.lastTrigger
  /\ welcomeTurns' = s.welcomeTurns
  /\ analysesReturned' = s.analysesReturned
  /\ untouched' = s.untouched
  /\ UNCHANGED fnVars

\* isInitialized.value && chatModel.value !== null: the two are set together
isModelReady(s) == s.isInitialized

HumanMessage(text) == [role |-> "human", content |-> text]
AIMessage(text) == [role |-> "ai", content |-> text]

\* A call that has completed leaves the awaited calls; a call that awaits joins them.
Without(calls, call) == calls (-) SetToBag({call})
With(calls, call) == calls (+) SetToBag({call})

\* userInfo.questionsAsked++
incrementQuestions_Forgotten(uinfo) == uinfo

incrementQuestions(uinfo) == [uinfo EXCEPT !.questionsAsked = @ + 1]

\* sendMessage up to the await of the primary gateway call
sendMessageCall(s, userMessage) ==
  IF ~isModelReady(s)
  THEN [s EXCEPT
          !.untouched = FALSE,
          !.lastReturn = [NoReturn EXCEPT !.op = "send", !.gen = s.gen,
                            !.outcome = "threw", !.primary = "notReady"]]
  ELSE [s EXCEPT
          !.untouched = FALSE,
          !.conversationHistory = Append(@, HumanMessage(userMessage)),
          !.pending = With(@, [op |-> "send", pc |-> "reply", gen |-> s.gen,
                               message |-> <<>>])]

sendMessageFailed_Swallowed(s, call) ==
  [s EXCEPT !.pending = Without(@, call),
     !.lastReturn = [NoReturn EXCEPT !.op = "send", !.gen = call.gen,
                       !.outcome = "returned", !.primary = "fail"]]

sendMessageFailed_Counted(s, call) ==
  [s EXCEPT !.pending = Without(@, call),
     !.userInfo = incrementQuestions(@),
     !.lastReturn = [NoReturn EXCEPT !.op = "send", !.gen = call.gen,
                       !.outcome = "threw", !.primary = "fail"]]

\* the catch of sendMessage: the primary gateway call failed
sendMessageFailed(s, call) ==
  [s EXCEPT !.pending = Without(@, call),
     !.lastReturn = [NoReturn EXCEPT !.op = "send", !.gen = call.gen,
                       !.outcome = "threw", !.primary = "fail"]]

analysisPrompt_WithoutLastTurn(history) ==
  [i \in 1..(Len(history) - 1) |->
     [speaker |-> IF history[i].role = "human" THEN "yonghu" ELSE "AI",
      content |-> history[i].content]]

\* The history as the analysis prompt embeds it: one line per turn,
\* "用户: ..." for a HumanMessage and "AI: ..." for any other
analysisPrompt(history) ==
  [i \in DOMAIN history |->
     [speaker |-> IF history[i].role = "human" THEN "yonghu" ELSE "AI",
      content |-> history[i].content]]

\* sendMessage from the reply of the primary gateway call to the next await or
\* the return; performMBTIAnalysis up to its await is part of it
sendMessageReply(s, call, content) ==
  LET history == Append(s.conversationHistory, AIMessage(content))
      uinfo == incrementQuestions(s.userInfo)
      trigger == shouldAnalyze(content, uinfo, history)
      s1 == [s EXCEPT !.conversationHistory = history, !.userInfo = uinfo,
               !.lastTrigger = [NoTrigger EXCEPT !.evaluated = TRUE,
                                  !.aiResponse = content, !.result = trigger]]
      ret == [NoReturn EXCEPT !.op = "send", !.gen = call.gen,
                !.outcome = "returned", !.message = content, !.primary = "ok",
                !.trigger = trigger, !.busy = s.isAnalyzing]
  IN  IF ~trigger
      THEN [s1 EXCEPT !.pending = Without(@, call), !.lastReturn = ret]
      ELSE IF s.isAnalyzing                       \* if (isAnalyzing.value) return null
      THEN [s1 EXCEPT !.pending = Without(@, call),
              !.lastReturn = [ret EXCEPT !.isComplete = TRUE]]
      ELSE [s1 EXCEPT !.isAnalyzing = TRUE,
              !.lastTrigger = [@ EXCEPT !.issued = TRUE,
                                 !.prompt = analysisPrompt(history)],
              !.pending = With(Without(@, call),
                               [call EXCEPT !.pc = "analysis", !.message = content])]

\* performMBTIAnalysis from the answer of the analysis gateway call to its
\* return: [threw, analysis, mbtiType], mbtiType being what userInfo.mbtiType
\* is set to (NoType: not set)
analysisOutcome_Rethrow(response) ==
  LET analysis == IF response.kind = "ok" THEN parseAnalysisResult(response.content)
                  ELSE Null
  IN  IF analysis # Null /\ analysis.mbtiType # <<>>
      THEN [threw |-> FALSE, analysis |-> analysis, mbtiType |-> analysis.mbtiType]
      ELSE [threw |-> TRUE, analysis |-> Null, mbtiType |-> NoType]

analysisOutcome(response) ==
  LET analysis == IF response.kind = "ok" THEN parseAnalysisResult(response.content)
                  ELSE Null
  IN  IF analysis # Null /\ analysis.mbtiType # <<>>
      THEN [threw |-> FALSE, analysis |-> analysis, mbtiType |-> analysis.mbtiType]
      ELSE [threw |-> FALSE, analysis |-> generateFallbackAnalysis, mbtiType |-> NoType]

\* sendMessage from the answer of the analysis gateway call to its return
sendMessageAnalysed(s, call, response) ==
  LET out == analysisOutcome(response)
      ret == [NoReturn EXCEPT !.op = "send", !.gen = call.gen,
                !.primary = "ok", !.trigger = TRUE, !.analysisResponse = response]
  IN  [s EXCEPT
         !.userInfo = IF out.mbtiType # NoType THEN [@ EXCEPT !.mbtiType = out.mbtiType]
                      ELSE @,
         !.isAnalyzing = FALSE,                   \* finally
         !.pending = Without(@, call),
         !.analysesReturned = IF ~out.threw /\ call.gen = s.gen THEN @ + 1 ELSE @,
         !.lastReturn =
           IF out.threw THEN [ret EXCEPT !.outcome = "threw"]
           ELSE [ret EXCEPT !.outcome = "returned", !.message = call.message,
                   !.analysis = out.analysis, !.isComplete = TRUE]]

notReadyText == <<"weizhunbeijiuxu">>
welcomeFallbackText == <<"nihao", "juhui", "pengyou">>

\* getWelcomeMessage up to the await of the gateway call
getWelcomeMessageCall(s) ==
  IF ~isModelReady(s)
  THEN [s EXCEPT
          !.untouched = FALSE,
          !.lastReturn = [NoReturn EXCEPT !.op = "welcome", !.gen = s.gen,
                            !.outcome = "returned", !.message = notReadyText,
                            !.primary = "notReady"]]
  ELSE [s EXCEPT
          !.untouched = FALSE,
          !.pending = With(@, [op |-> "welcome", pc |-> "reply", gen |-> s.gen,
                               message |-> <<>>])]

\* getWelcomeMessage from the answer of the gateway call to its return
getWelcomeMessageReply(s, call, response) ==
  LET ret == [NoReturn EXCEPT !.op = "welcome", !.gen = call.gen,
                !.outcome = "returned"]
  IN  IF response.kind = "ok"
      THEN [s EXCEPT !.conversationHistory = Append(@, AIMessage(response.content)),
              !.welcomeTurns = @ + 1,
              !.pending = Without(@, call),
              !.lastReturn = [ret EXCEPT !.message = response.content, !.primary = "ok"]]
      ELSE [s EXCEPT !.pending = Without(@, call),
              !.lastReturn = [ret EXCEPT !.message = welcomeFallbackText,
                                !.primary = "fail"]]

resetConversation(s) ==
  [s EXCEPT !.conversationHistory = <<>>,
     !.userInfo = [mbtiType |-> NoType, questionsAsked |-> 0],
     !.isAnalyzing = FALSE,
     !.gen = @ + 1,
     !.welcomeTurns = 0,
     !.analysesReturned = 0,
     !.untouched = TRUE]

----------------------------------------------------------------------------
(* The module used directly: any caller, any order of calls.  The App      *)
(* component takes no step.                                                *)

InitService ==
  /\ isInitialized \in BOOLEAN
  /\ conversationHistory = <<>>
  /\ isAnalyzing = FALSE
  /\ userInfo = [mbtiType |-> NoType, questionsAsked |-> 0]
  /\ pending = EmptyBag
  /\ gen = 0
  /\ lastReturn = NoReturn
  /\ lastTrigger = NoTrigger
  /\ welcomeTurns = 0
  /\ analysesReturned = 0
  /\ untouched = FALSE

InitApp ==
  /\ messages = <<>>
  /\ isLoading = FALSE
  /\ isAnalysisComplete = FALSE
  /\ mountTimer = FALSE

\* No function is being checked on its own.
NotParsed == [called |-> FALSE]
NotEvaluated == [called |-> FALSE]

InitFunctions ==
  /\ parserInput = <<>>
  /\ parsed = NotParsed
  /\ enoughInfo = NotEvaluated

Init == InitService /\ InitApp /\ InitFunctions

\* The awaited calls at a place of the code.
Awaiting(op, pc) == {call \in BagToSet(pending) : call.op = op /\ call.pc = pc}

\* The turns the awaited calls will still push.
RECURSIVE TurnsAwaited(_)
TurnsAwaited(calls) ==
  IF calls = EmptyBag THEN 0
  ELSE LET call == CHOOSE c \in BagToSet(calls) : TRUE
       IN  (IF call.pc = "reply" THEN 1 ELSE 0) + TurnsAwaited(Without(calls, call))

CanCall(turns, max) ==
  /\ Len(conversationHistory) + TurnsAwaited(pending) + turns <= max
  /\ BagCardinality(pending) < MaxPending

SendMessage ==
  /\ CanCall(2, MaxTurns)
  /\ \E userMessage \in UserTexts : Becomes(sendMessageCall(S, userMessage))
  /\ UNCHANGED uiVars

GetWelcomeMessage ==
  /\ conversationHistory = <<>>           \* asked for at the start of a conversation
  /\ CanCall(1, MaxTurns)
  /\ Becomes(getWelcomeMessageCall(S))
  /\ UNCHANGED uiVars

ResetConversation ==
  /\ gen < MaxResets
  /\ Becomes(resetConversation(S))
  /\ UNCHANGED uiVars

ReplyArrives ==
  /\ \E call \in Awaiting("send", "reply") :
       \E content \in ReplyTexts : Becomes(sendMessageReply(S, call, content))
  /\ UNCHANGED uiVars

ReplyFails ==
  /\ \E call \in Awaiting("send", "reply") : Becomes(sendMessageFailed(S, call))
  /\ UNCHANGED uiVars

AnalysisArrives ==
  /\ \E call \in Awaiting("send", "analysis") :
       \E content \in AnalysisTexts :
         Becomes(sendMessageAnalysed(S, call, Reply(content)))
  /\ UNCHANGED uiVars

AnalysisFails ==
  /\ \E call \in Awaiting("send", "analysis") :
       Becomes(sendMessageAnalysed(S, call, GatewayError))
  /\ UNCHANGED uiVars

WelcomeArrives ==
  /\ \E call \in Awaiting("welcome", "reply") :
       \E content \in WelcomeTexts :
         Becomes(getWelcomeMessageReply(S, call, Reply(content)))
  /\ UNCHANGED uiVars

WelcomeFails ==
  /\ \E call \in Awaiting("welcome", "reply") :
       Becomes(getWelcomeMessageReply(S, call, GatewayError))
  /\ UNCHANGED uiVars

Next ==
  \/ SendMessage
  \/ GetWelcomeMessage
  \/ ResetConversation
  \/ ReplyArrives
  \/ ReplyFails
  \/ AnalysisArrives
  \/ AnalysisFails
  \/ WelcomeArrives
  \/ WelcomeFails

Spec == Init /\ [][Next]_vars

----------------------------------------------------------------------------
(* The App component: the only caller of the module in the application *)

bannerText == <<"huanying">>
notConfiguredText == <<"weipeizhi">>
sendFailedText == <<"fasongshibai">>
completeText == <<"fenxiwancheng">>

addMessage(msgs, content, type) == Append(msgs, [type |-> type, content |-> content])

addMBTIResult(msgs, analysisData) ==
  Append(msgs, [type |-> "mbti-result", data |-> analysisData])

\* initializeApp, run by onMounted
InitUI ==
  /\ InitService
  /\ InitFunctions
  /\ isLoading = FALSE
  /\ isAnalysisComplete = FALSE
  /\ IF isInitialized
     THEN messages = addMessage(<<>>, bannerText, "system") /\ mountTimer = TRUE
     ELSE messages = addMessage(<<>>, notConfiguredText, "system") /\ mountTimer = FALSE

\* App.sendMessage after its await, r being what aiService.sendMessage gave;
\* msgs is the message list at that moment
afterSendMessage(msgs, r) ==
  IF r.op = "none"                                  \* still awaited
  THEN /\ messages' = msgs
       /\ UNCHANGED <<isLoading, isAnalysisComplete>>
  ELSE IF r.outcome = "threw"
  THEN /\ messages' = addMessage(msgs, sendFailedText, "system")
       /\ isLoading' = FALSE
       /\ UNCHANGED isAnalysisComplete
  ELSE IF r.analysis # Null
  THEN /\ messages' = addMessage(addMBTIResult(addMessage(msgs, r.message, "ai"),
                                               r.analysis),
                                 completeText, "system")
       /\ isAnalysisComplete' = TRUE
       /\ isLoading' = FALSE
  ELSE /\ messages' = addMessage(msgs, r.message, "ai")
       /\ isLoading' = FALSE
       /\ UNCHANGED isAnalysisComplete

\* App.startNewConversation after its await
afterGetWelcomeMessage(msgs, r) ==
  IF r.op = "none"
  THEN messages' = msgs /\ isLoading' = TRUE
  ELSE messages' = addMessage(msgs, r.message, "ai") /\ isLoading' = FALSE

canSendMessage(inputMessage) == ~isLoading /\ Len(inputMessage) > 0

\* <div v-if="!isAnalysisComplete" class="input-container">
inputContainerShown == ~isAnalysisComplete

UISendMessage ==
  /\ inputContainerShown
  /\ CanCall(2, MaxUITurns)
  /\ isInitialized \/ Len(messages) < MaxUITurns
  /\ \E userMessage \in UserTexts :
       LET s == sendMessageCall(S, userMessage) IN
       /\ canSendMessage(userMessage)
       /\ Becomes(s)
       /\ IF s.lastReturn.op = "none"
          THEN /\ messages' = addMessage(messages, userMessage, "user")
               /\ isLoading' = TRUE
               /\ UNCHANGED isAnalysisComplete
          ELSE afterSendMessage(addMessage(messages, userMessage, "user"), s.lastReturn)
  /\ UNCHANGED mountTimer

\* startNewConversation
startNewConversation ==
  LET s == getWelcomeMessageCall(resetConversation(S)) IN
  /\ Becomes(s)
  /\ isAnalysisComplete' = FALSE
  /\ afterGetWelcomeMessage(<<>>, s.lastReturn)

RestartButtons == {"restart-toggle", "mbti-restart-btn", "restart-analysis-btn"}

\* the button is rendered and enabled
ButtonEnabled(button) ==
  CASE button = "restart-toggle" -> TRUE
    [] button = "mbti-restart-btn" ->
         ~isLoading /\ \E i \in DOMAIN messages : messages[i].type = "mbti-result"
    [] button = "restart-analysis-btn" -> ~isLoading /\ isAnalysisComplete

UIRestart ==
  /\ gen < MaxResets
  /\ BagCardinality(pending) < MaxPending
  /\ \E button \in RestartButtons : ButtonEnabled(button)
  /\ startNewConversation
  /\ UNCHANGED mountTimer

\* setTimeout(startNewConversation, 500)
UITimer ==
  /\ mountTimer
  /\ gen < MaxResets
  /\ BagCardinality(pending) < MaxPending
  /\ startNewConversation
  /\ mountTimer' = FALSE

UIReplyArrives ==
  /\ \E call \in Awaiting("send", "reply") :
       \E content \in ReplyTexts :
         LET s == sendMessageReply(S, call, content) IN
         Becomes(s) /\ afterSendMessage(messages, s.lastReturn)
  /\ UNCHANGED mountTimer

UIReplyFails ==
  /\ \E call \in Awaiting("send", "reply") :
       LET s == sendMessageFailed(S, call) IN
       Becomes(s) /\ afterSendMessage(messages, s.lastReturn)
  /\ UNCHANGED mountTimer

UIAnalysisArrives ==
  /\ \E call \in Awaiting("send", "analysis") :
       \E content \in AnalysisTexts :
         LET s == sendMessageAnalysed(S, call, Reply(content)) IN
         Becomes(s) /\ afterSendMessage(messages, s.lastReturn)
  /\ UNCHANGED mountTimer

UIAnalysisFails ==
  /\ \E call \in Awaiting("send", "analysis") :
       LET s == sendMessageAnalysed(S, call, GatewayError) IN
       Becomes(s) /\ afterSendMessage(messages, s.lastReturn)
  /\ UNCHANGED mountTimer

UIWelcomeArrives ==
  /\ \E call \in Awaiting("welcome", "reply") :
       \E content \in WelcomeTexts :
         LET s == getWelcomeMessageReply(S, call, Reply(content)) IN
         /\ Becomes(s)
         /\ afterGetWelcomeMessage(messages, s.lastReturn)
         /\ UNCHANGED isAnalysisComplete
  /\ UNCHANGED mountTimer

UIWelcomeFails ==
  /\ \E call \in Awaiting("welcome", "reply") :
       LET s == getWelcomeMessageReply(S, call, GatewayError) IN
       /\ Becomes(s)
       /\ afterGetWelcomeMessage(messages, s.lastReturn)
       /\ UNCHANGED isAnalysisComplete
  /\ UNCHANGED mountTimer

NextUI ==
  \/ UISendMessage
  \/ UIRestart
  \/ UITimer
  \/ UIReplyArrives
  \/ UIReplyFails
  \/ UIAnalysisArrives
  \/ UIAnalysisFails
  \/ UIWelcomeArrives
  \/ UIWelcomeFails

SpecUI == InitUI /\ [][NextUI]_vars

----------------------------------------------------------------------------
(* The result parser on its own: parseAnalysisResult applied to a text *)

ParserLines ==
  {<<"x">>,
   <<"leixing", "I", "N", "T", "J">>,
   <<"leixing", "E", "S", "F", "P", "X">>,
   <<"MBTI", "leixing", "I", "S", "T", "P">>,
   <<"A", "B", "C", "D", "E", "leixing", "I", "N", "T", "J">>,
   <<"A", "B", "leixing", "E", "N", "T", "J">>,
   <<"leixing", "x">>,
   <<"I", "S", "F", "J">>,
   <<"{", "mbtiType", "I", "N", "T", "J", "dimensions", "I", "N", "T", "J",
     "description", "}">>,
   <<"{", "mbtiType", "I", "N", "T", "J", "dimensions", "E", "S", "F", "P",
     "description", "}">>,
   <<"{", "mbtiType", "E", "N", "T", "P", "dimensions", "}">>,
   <<"{", "mbtiType", "E", "N", "T", "P", "dimensions", "description", "}">>,
   <<"{", "mbtiType", "dimensions", "I", "S", "F", "P", "description", "}">>,
   <<"{", "x", "}">>,
   <<"}">>}

\* lines.join('\n')
RECURSIVE JoinLines(_)
JoinLines(lines) ==
  IF Len(lines) = 1 THEN lines[1]
  ELSE lines[1] \o <<"NL">> \o JoinLines(Tail(lines))

ParserInputs ==
  {JoinLines(lines) : lines \in UNION {[1..n -> ParserLines] : n \in 1..MaxLines}}

InitParser ==
  /\ InitService /\ InitApp
  /\ parserInput \in ParserInputs
  /\ parsed = NotParsed
  /\ enoughInfo = NotEvaluated

Parse ==
  /\ parsed = NotParsed
  /\ parsed' = [called |-> TRUE, fn |-> "parseAnalysisResult",
                result |-> parseAnalysisResult(parserInput)]
  /\ UNCHANGED <<svcVars, uiVars, parserInput, enoughInfo>>

ParseAlternative ==
  /\ parsed = NotParsed
  /\ parsed' = [called |-> TRUE, fn |-> "parseAlternativeFormat",
                result |-> parseAlternativeFormat(parserInput)]
  /\ UNCHANGED <<svcVars, uiVars, parserInput, enoughInfo>>

NextParser == Parse \/ ParseAlternative

SpecParser == InitParser /\ [][NextParser]_vars

----------------------------------------------------------------------------
(* The coverage heuristic on its own: hasCollectedEnoughDimensionInfo applied *)
(* to a history                                                              *)

TurnTexts ==
  {<<"x">>, <<"juhui">>, <<"xijie", "x">>, <<"x", "jueding">>, <<"jihua">>}

Turns == {[role |-> r, content |-> t] : r \in {"human", "ai"}, t \in TurnTexts}

Histories == UNION {[1..n -> Turns] : n \in 0..MaxHistory}

InitCoverage ==
  /\ conversationHistory \in Histories
  /\ isInitialized = TRUE
  /\ isAnalyzing = FALSE
  /\ userInfo = [mbtiType |-> NoType, questionsAsked |-> 0]
  /\ pending = EmptyBag
  /\ gen = 0
  /\ lastReturn = NoReturn
  /\ lastTrigger = NoTrigger
  /\ welcomeTurns = 0
  /\ analysesReturned = 0
  /\ untouched = FALSE
  /\ InitApp
  /\ InitFunctions

Evaluate ==
  /\ enoughInfo = NotEvaluated
  /\ enoughInfo' = [called |-> TRUE,
                    result |-> hasCollectedEnoughDimensionInfo(conversationHistory)]
  /\ UNCHANGED <<svcVars, uiVars, parserInput, parsed>>

NextCoverage == Evaluate

SpecCoverage == InitCoverage /\ [][NextCoverage]_vars

----------------------------------------------------------------------------
(* Claims *)

AssistantTurns(history) ==
  Cardinality({i \in DOMAIN history : history[i].role = "ai"})

\* The axes with a key word in some turn of the history.
AxesMentioned(history) ==
  {a \in DOMAIN dimensionKeywords :
     \E i \in DOMAIN history : \E j \in DOMAIN history[i].content :
       history[i].content[j] \in dimensionKeywords[a]}

HasTriggerPhrase(text) ==
  \E j \in DOMAIN text : SubWords(text[j]) \cap analysisKeywords # {}

\* C1: shouldAnalyze(reply) is true iff questionsAsked >= minQuestionsBeforeAnalysis
\* and (the reply holds a trigger phrase or at least 3 of the 4 axes are covered);
\* below the threshold it is false whatever the reply and the history.
C1_TriggerContract ==
  lastTrigger.evaluated =>
    /\ lastTrigger.result <=>
         /\ userInfo.questionsAsked >= minQuestionsBeforeAnalysis
         /\ \/ HasTriggerPhrase(lastTrigger.aiResponse)
            \/ Cardinality(AxesMentioned(conversationHistory)) >= 3
    /\ userInfo.questionsAsked < minQuestionsBeforeAnalysis => ~lastTrigger.result

C1_Witness ==
  /\ lastTrigger.evaluated /\ lastTrigger.result
  /\ ~HasTriggerPhrase(lastTrigger.aiResponse)

\* C2 as stated: questionsAsked equals the number of assistant turns appended to
\* the history since the last reset.
C2_Original == userInfo.questionsAsked = AssistantTurns(conversationHistory)

\* C2 amended: questionsAsked equals the number of assistant turns sendMessage
\* appended since the last reset; the turn getWelcomeMessage appends is not counted.
C2_CountsRepliesOfSendMessage ==
  userInfo.questionsAsked = AssistantTurns(conversationHistory) - welcomeTurns

C2_Witness ==
  /\ gen >= 1 /\ welcomeTurns = 1 /\ userInfo.questionsAsked >= 2
  /\ Len(conversationHistory) > 2 * userInfo.questionsAsked + 1

\* C3: between two resets at most one sendMessage call returns a non-null
\* analysis.
C3_AtMostOneResultPerSession == analysesReturned <= 1

\* C4: a sendMessage call whose trigger was true returns isComplete true with an
\* analysis, and analysis null comes only with isComplete false.
C4_SomeResultOnceTriggered ==
  (lastReturn.op = "send" /\ lastReturn.outcome = "returned") =>
    /\ lastReturn.trigger => (lastReturn.isComplete /\ lastReturn.analysis # Null)
    /\ lastReturn.analysis = Null => ~lastReturn.isComplete

AnalysisFailed(r) ==
  \/ r.analysisResponse.kind = "fail"
  \/ r.analysisResponse.kind = "ok" /\ parseAnalysisResult(r.analysisResponse.content) = Null

\* C5: when the analysis gateway call fails or the parser returns null, the call
\* returns the default result (ENFP, confidence 0.6) with isComplete true and
\* throws nothing.
C5_DefaultResultOnFailure ==
  (lastReturn.op = "send" /\ AnalysisFailed(lastReturn)) =>
    /\ lastReturn.outcome = "returned"
    /\ lastReturn.isComplete
    /\ lastReturn.analysis # Null
    /\ lastReturn.analysis.mbtiType = <<"E", "N", "F", "P">>
    /\ lastReturn.analysis.confidence = 60

C5_Witness ==
  /\ lastReturn.op = "send"
  /\ lastReturn.analysisResponse.kind = "ok"
  /\ parseAnalysisResult(lastReturn.analysisResponse.content) = Null
  /\ lastReturn.analysis = generateFallbackAnalysis

\* C6: after resetConversation, until the caller calls getWelcomeMessage or
\* sendMessage again, the history is empty, questionsAsked is 0 and mbtiType is
\* null, also when a call awaited at the reset completes afterwards.
C6_ResetStaysClean ==
  untouched =>
    /\ conversationHistory = <<>>
    /\ userInfo.questionsAsked = 0
    /\ userInfo.mbtiType = NoType

\* C7: at most one analysis gateway call is awaited at any time.
C7_OneAnalysisInFlight ==
  BagCardinality([call \in Awaiting("send", "analysis") |-> pending[call]]) <= 1

\* C8: no two gateway calls are awaited at the same time, whatever the user does.
C8_OneGatewayCallAtATime == BagCardinality(pending) <= 1

\* C9: sendMessage throws exactly when the model is not ready or the primary
\* gateway call fails; a failure of the analysis call or of the parser is never
\* thrown but replaced by a result.
C9_ThrowsOnlyOnPrimaryFailure ==
  lastReturn.op = "send" =>
    /\ lastReturn.outcome = "threw" <=> lastReturn.primary \in {"notReady", "fail"}
    /\ lastReturn.analysisResponse.kind # "none" =>
         (lastReturn.outcome = "returned" /\ lastReturn.analysis # Null)

C9_Witness ==
  /\ lastReturn.op = "send"
  /\ lastReturn.analysisResponse.kind = "fail"
  /\ lastReturn.outcome = "returned"

Tier1Fails(content) ==
  \/ jsonMatch(content) = Null
  \/ ~JSONparse(jsonMatch(content).text).ok
  \/ ~hasRequiredFields(JSONparse(jsonMatch(content).text).obj)

\* The type a line scan of the text recovers, <<>> when there is none.
TypeOnATypeLine(content) == scanLines(split(content))

\* C10: whenever Tier 1 fails, by a parse error or by missing fields, the line
\* scan runs on the same text: a text with a type line holding four upper-case
\* letters gives the result synthesized for that type, not the default.
C10_LineScanAfterEveryTier1Failure ==
  (/\ lastReturn.op = "send"
   /\ lastReturn.analysisResponse.kind = "ok"
   /\ Tier1Fails(lastReturn.analysisResponse.content)
   /\ TypeOnATypeLine(lastReturn.analysisResponse.content) # <<>>) =>
    lastReturn.analysis =
      generateBasicAnalysis(TypeOnATypeLine(lastReturn.analysisResponse.content))

\* The brace-delimited substrings of a text that decode as a JSON object.
JsonObjectsIn(text) ==
  {ij \in (DOMAIN text) \X (DOMAIN text) :
     /\ ij[1] < ij[2] /\ text[ij[1]] = "{" /\ text[ij[2]] = "}"
     /\ JSONparse(SubSeq(text, ij[1], ij[2])).ok}

\* The maximal runs of upper-case letters of a line, as <<first, last>>.
UpperRuns(cs) ==
  {ij \in (DOMAIN cs) \X (DOMAIN cs) :
     /\ ij[1] <= ij[2]
     /\ \A k \in ij[1]..ij[2] : cs[k] \in UpperCase
     /\ ij[1] = 1 \/ cs[ij[1] - 1] \notin UpperCase
     /\ ij[2] = Len(cs) \/ cs[ij[2] + 1] \notin UpperCase}

\* The first maximal run of exactly four upper-case letters of a line, <<>>
\* when it has none.
FourLetterCode(line) ==
  LET cs == Expand(line)
      four == {ij \in UpperRuns(cs) : ij[2] - ij[1] = 3}
  IN  IF four = {} THEN <<>>
      ELSE LET first == CHOOSE ij \in four : \A kl \in four : ij[1] <= kl[1]
           IN  SubSeq(cs, first[1], first[2])

\* The code of the first line that holds the key or the type word and a code.
RECURSIVE StatedTypeOf(_)
StatedTypeOf(lines) ==
  IF lines = <<>> THEN <<>>
  ELSE IF /\ \E j \in DOMAIN Head(lines) :
               SubWords(Head(lines)[j]) \cap {"mbtiType", "leixing"} # {}
          /\ FourLetterCode(Head(lines)) # <<>>
       THEN FourLetterCode(Head(lines))
       ELSE StatedTypeOf(Tail(lines))

StatedType(text) == StatedTypeOf(split(text))

TableEntry(type) ==
  IF type = <<"I", "N", "T", "J">> THEN "INTJ" ELSE "ENFP"

\* C11: for a text with no valid JSON object and a type line holding the code T,
\* parseAnalysisResult returns a result with mbtiType T, the four axes EI, SN,
\* TF, JP each with confidence 0.75 and the letter of T as pole, and the texts of
\* the table entry of T (the ENFP entry when T has none).
C11_SynthesizedFromTypeLine ==
  (/\ parsed.called /\ parsed.fn = "parseAnalysisResult"
   /\ JsonObjectsIn(parserInput) = {}
   /\ StatedType(parserInput) # <<>>
   /\ TypeOnATypeLine(parserInput) = StatedType(parserInput)) =>
    LET T == StatedType(parserInput)
        r == parsed.result
    IN  /\ r # Null
        /\ r.mbtiType = T
        /\ DOMAIN r.dimensions = {"EI", "SN", "TF", "JP"}
        /\ \A i \in 1..4 : /\ r.dimensions[Axes[i]].type = T[i]
                            /\ r.dimensions[Axes[i]].confidence = 75
        /\ r.description = TableEntry(T) \o ".description"
        /\ r.strengths = TableEntry(T) \o ".strengths"
        /\ r.developmentAreas = TableEntry(T) \o ".developmentAreas"
        /\ r.careerSuggestions = TableEntry(T) \o ".careerSuggestions"

\* C18: parseAlternativeFormat recovers the first maximal run of exactly four
\* upper-case letters of the first line that holds the key or the type word and
\* such a run: a longer run is never cut to four letters; it returns null only
\* when no such line holds such a run.
C18_ExactlyFourLetters ==
  (parsed.called /\ parsed.fn = "parseAlternativeFormat") =>
    IF StatedType(parserInput) = <<>>
    THEN parsed.result = Null
    ELSE parsed.result # Null /\ parsed.result.mbtiType = StatedType(parserInput)

\* The objects of the text that hold a non-empty mbtiType, dimensions and
\* description.
CompleteObjectsIn(text) ==
  {obj \in {JSONparse(SubSeq(text, ij[1], ij[2])).obj : ij \in JsonObjectsIn(text)} :
     /\ {"mbtiType", "dimensions", "description"} \subseteq obj.keys
     /\ obj.mbtiType # <<>>
     /\ obj.dimensions # <<>>}

\* The result is an object of the text as decoded, not a synthesized one.
IsDecoded(r) == r # Null /\ r.description = "decoded"

\* C12: parseAnalysisResult returns a decoded object, unchanged, if and only if
\* the text holds a brace-delimited substring that decodes as a JSON object with
\* non-empty mbtiType, dimensions and description; such an object inside prose
\* is returned with its own mbtiType.
C12_DecodesExactlyCompleteObjects ==
  (parsed.called /\ parsed.fn = "parseAnalysisResult") =>
    /\ IsDecoded(parsed.result) <=> CompleteObjectsIn(parserInput) # {}
    /\ IsDecoded(parsed.result) =>
         \E obj \in CompleteObjectsIn(parserInput) : parsed.result = decoded(obj)

\* The text from the first "{" to the last "}", decoded.
GreedySpan(text) ==
  LET open == {i \in DOMAIN text : text[i] = "{"}
      close == {i \in DOMAIN text : text[i] = "}"}
  IN  IF \E i \in open : \E j \in close : i < j
      THEN JSONparse(SubSeq(text, Min(open), Max(close)))
      ELSE [ok |-> FALSE]

\* C12 amended: parseAnalysisResult returns a decoded object, unchanged, if and
\* only if the text from its first "{" to its last "}" decodes as a JSON object
\* with a non-empty mbtiType, a dimensions field (an empty object is accepted)
\* and a non-empty description.
C12_DecodesTheGreedySpan ==
  (parsed.called /\ parsed.fn = "parseAnalysisResult") =>
    LET g == GreedySpan(parserInput)
        accepted == /\ g.ok
                    /\ {"mbtiType", "dimensions", "description"} \subseteq g.obj.keys
                    /\ g.obj.mbtiType # <<>>
    IN  /\ IsDecoded(parsed.result) <=> accepted
        /\ accepted => parsed.result = decoded(g.obj)

C12_Witness ==
  /\ parsed.called /\ parsed.fn = "parseAnalysisResult"
  /\ parserInput[1] = "x" /\ parserInput[Len(parserInput)] = "x"
  /\ IsDecoded(parsed.result)
  /\ parsed.result.mbtiType = <<"I", "N", "T", "J">>

\* C13: every analysis sendMessage returns has a 4-letter mbtiType, all four
\* axes, and the pole of each axis equal to the letter of mbtiType at its place.
C13_TypeMatchesPoles ==
  (lastReturn.op = "send" /\ lastReturn.analysis # Null) =>
    LET a == lastReturn.analysis IN
    /\ Len(a.mbtiType) = 4
    /\ DOMAIN a.dimensions = {"EI", "SN", "TF", "JP"}
    /\ \A i \in 1..4 : a.dimensions[Axes[i]].type = a.mbtiType[i]

\* C14: whenever sendMessage returns isComplete true with an analysis,
\* userInfo.mbtiType is set and equals the mbtiType of that analysis, on every
\* path, the default result included.
C14_SessionMarkedComplete ==
  (lastReturn.op = "send" /\ lastReturn.isComplete /\ lastReturn.analysis # Null) =>
    /\ userInfo.mbtiType # NoType
    /\ userInfo.mbtiType = lastReturn.analysis.mbtiType

\* C15: hasCollectedEnoughDimensionInfo is true exactly when at least 3 of the 4
\* axes have a key word in some turn of the history, whatever the role of the
\* turn: true for 3 or 4 axes, false for 0, 1 or 2.
C15_ThreeOfFourAxes ==
  enoughInfo.called =>
    (enoughInfo.result <=> Cardinality(AxesMentioned(conversationHistory)) >= 3)

C15_Witness ==
  /\ enoughInfo.called /\ enoughInfo.result
  /\ Cardinality(AxesMentioned(conversationHistory)) = 3
  /\ \E i \in DOMAIN conversationHistory : conversationHistory[i].role = "ai"
  /\ \E i \in DOMAIN conversationHistory : conversationHistory[i].role = "human"

\* C16: getWelcomeMessage never throws, and when nothing else touched the
\* session the text it returned, the reply or the literal fallback, is the first
\* turn of the history, an assistant turn.
C16_WelcomeIsFirstTurn ==
  lastReturn.op = "welcome" =>
    /\ lastReturn.outcome = "returned"
    /\ (/\ lastReturn.gen = gen
        /\ userInfo.questionsAsked = 0
        /\ \A i \in DOMAIN conversationHistory : conversationHistory[i].role = "ai") =>
         /\ conversationHistory # <<>>
         /\ conversationHistory[1] = AIMessage(lastReturn.message)

\* The calls of sendMessage awaiting at a place of the code.
SendsAt(calls, pc) ==
  BagCardinality([call \in {c \in BagToSet(calls) : c.op = "send" /\ c.pc = pc} |->
                    calls[call]])

\* The history as the lines of the prompt.
PromptLines(history) ==
  [i \in DOMAIN history |->
     [speaker |-> IF history[i].role = "human" THEN "yonghu" ELSE "AI",
      content |-> history[i].content]]

\* C17: a sendMessage call appends the user turn and suspends on the primary
\* call; an analysis call is issued only in the step that appends the reply of the
\* same send, counts it and evaluates the trigger true, and its prompt holds the
\* whole history with that reply; a call suspends at no other place.
C17_StepsInOrder ==
  [][/\ SendsAt(pending', "reply") > SendsAt(pending, "reply") =>
          /\ \E t \in UserTexts :
               conversationHistory' = Append(conversationHistory, HumanMessage(t))
          /\ userInfo' = userInfo
          /\ SendsAt(pending', "analysis") = SendsAt(pending, "analysis")
     /\ SendsAt(pending', "analysis") > SendsAt(pending, "analysis") =>
          /\ SendsAt(pending', "analysis") = SendsAt(pending, "analysis") + 1
          /\ SendsAt(pending', "reply") = SendsAt(pending, "reply") - 1
          /\ Len(conversationHistory') = Len(conversationHistory) + 1
          /\ SubSeq(conversationHistory', 1, Len(conversationHistory)) = conversationHistory
          /\ conversationHistory'[Len(conversationHistory')] =
               AIMessage(lastTrigger'.aiResponse)
          /\ userInfo'.questionsAsked = userInfo.questionsAsked + 1
          /\ lastTrigger'.evaluated /\ lastTrigger'.result
          /\ lastTrigger'.prompt = PromptLines(conversationHistory')
     /\ lastTrigger'.issued <=> SendsAt(pending', "analysis") > SendsAt(pending, "analysis")
     /\ \A call \in BagToSet(pending') : call.pc \in {"reply", "analysis"}
    ]_vars

C17_Witness ==
  /\ lastTrigger.issued
  /\ Len(lastTrigger.prompt) >= 2 * minQuestionsBeforeAnalysis
  /\ lastTrigger.prompt[Len(lastTrigger.prompt)].speaker = "AI"

\* C19: the step in which the primary gateway call of a sendMessage fails
\* changes neither the history (the user turn stays, no assistant turn is added)
\* nor questionsAsked, mbtiType and isAnalyzing; a sendMessage rejected because
\* the model is not ready changes nothing; the step that started the call added
\* the user turn only.
C19_FailureLeavesOnlyUserTurn ==
  [][/\ (lastReturn'.op = "send" /\ lastReturn'.outcome = "threw") =>
          /\ conversationHistory' = conversationHistory
          /\ userInfo' = userInfo
          /\ isAnalyzing' = isAnalyzing
          /\ lastReturn'.primary = "notReady" => pending' = pending
          /\ lastReturn'.primary = "fail" =>
               /\ SendsAt(pending', "reply") = SendsAt(pending, "reply") - 1
               /\ SendsAt(pending', "analysis") = SendsAt(pending, "analysis")
     /\ SendsAt(pending', "reply") > SendsAt(pending, "reply") =>
          /\ \E t \in UserTexts :
               conversationHistory' = Append(conversationHistory, HumanMessage(t))
          /\ userInfo' = userInfo
          /\ isAnalyzing' = isAnalyzing
    ]_vars

C19_Witness ==
  /\ lastReturn.op = "send" /\ lastReturn.outcome = "threw"
  /\ lastReturn.primary = "fail"
  /\ conversationHistory = <<HumanMessage(<<"xijie", "jueding">>)>>
  /\ userInfo.questionsAsked = 0

\* The last step completed a send issued before the last restart, and what it
\* gave is the last entry of the message list.
StaleReplyShown ==
  /\ lastReturn.op = "send" /\ lastReturn.gen < gen
  /\ messages # <<>>
  /\ messages[Len(messages)] \in
       {[type |-> "ai", content |-> lastReturn.message],
        [type |-> "system", content |-> sendFailedText],
        [type |-> "system", content |-> completeText]}

\* C20: in the App isLoading is true whenever a gateway call it started is still
\* awaited, and what a send issued before a restart gives is never added to the
\* message list of the conversation the restart started.
C20_LoadingUntilResolved ==
  /\ pending # EmptyBag => isLoading
  /\ ~StaleReplyShown

====
